---- MODULE Spec2Model ----
(***************************************************************************)
(* Model of the dataset preparation stages of the training pipeline:       *)
(*   data_format_detector.py    detect_data_format                         *)
(*   unified_data_processor.py  process_data, convert_coco_to_yolo,        *)
(*                              copy_yolo_data_directly                    *)
(* The file system is modelled by values: an input tree is a record of     *)
(* file lists in directory-listing order, an output directory is Absent or *)
(* a record of what it holds, a written JSON file is the value dumped.     *)
(* Fractions are integers: confidence in hundredths, label geometry in     *)
(* millionths (the six decimals of the label format).                      *)
(***************************************************************************)
EXTENDS Integers, Sequences, FiniteSets, TLC

VARIABLES
    pc,                     \* which stage ran last: "start", "detected", "processed", "converted"
    input_data,             \* the input tree the stage ran on
    format_info_file,       \* content of the --format-info file, or Absent
    format_report_file,     \* content of the --format-report file, or Absent
    detected_format_file,   \* the decision file handed to the processor
    output_data,            \* the output directory, or Absent
    processing_report_file, \* content of the --processing-report file, or Absent
    results,                \* processing_results / results dict of the last run
    returned,               \* outcome of the last call: "none", "ok", "raised", or a bool
    args,                   \* the path arguments of the last call
    runs                    \* number of processor runs so far

vars == <<pc, input_data, format_info_file, format_report_file,
          detected_format_file, output_data, processing_report_file,
          results, returned, args, runs>>

(***************************************************************************)
(* Bounds of the model.                                                    *)
(***************************************************************************)
MaxJson == 2        \* JSON files in a detector input tree
MaxImages == 3      \* image files in a detector input tree

\* A file an operation writes: not there, or there with the value dumped.
Absent == [written |-> FALSE]
Written(content) == [written |-> TRUE, content |-> content]

\* The .txt file next to an image: missing, unreadable, or its lines, each
\* line split on white space.
NoFile == [exists |-> FALSE, readable |-> FALSE, lines |-> <<>>]
Unreadable == [exists |-> TRUE, readable |-> FALSE, lines |-> <<>>]
Lines(lines) == [exists |-> TRUE, readable |-> TRUE, lines |-> lines]

Min(a, b) == IF a <= b THEN a ELSE b

RECURSIVE SumSeq(_)
SumSeq(s) == IF s = <<>> THEN 0 ELSE Head(s) + SumSeq(Tail(s))

Range(s) == {s[i] : i \in DOMAIN s}

Take(s, n) == SubSeq(s, 1, Min(n, Len(s)))

(***************************************************************************)
(* Output file paths.  A path is its directory part and whether that       *)
(* directory exists already; a bare file name has the directory part "".   *)
(***************************************************************************)
Paths == { [dirname |-> "",    dir_exists |-> TRUE],
           [dirname |-> "out", dir_exists |-> TRUE],
           [dirname |-> "out", dir_exists |-> FALSE] }

\* os.makedirs(os.path.dirname(p), exist_ok=True): raises FileNotFoundError
\* on the empty directory part, otherwise leaves the directory in place.
MakedirsRaises(p) == p.dirname = ""

\* open(p, "w") succeeds when the directory of p exists (the current
\* directory for a bare name).
OpenRaises(p) == ~p.dir_exists

(***************************************************************************)
(* JSON documents.  json.load either raises or returns a value; of a dict  *)
(* the model keeps the three COCO keys and their lists.                    *)
(***************************************************************************)
Doc(parses, isDict, keys, images, annotations, categories) ==
    [parses |-> parses, isDict |-> isDict, keys |-> keys, images |-> images,
     annotations |-> annotations, categories |-> categories]

UnparsableDoc == Doc(FALSE, FALSE, {}, <<>>, <<>>, <<>>)
ListDoc == Doc(TRUE, FALSE, {}, <<>>, <<>>, <<>>)
KeysDoc(keys) == Doc(TRUE, TRUE, keys, <<>>, <<>>, <<>>)

(***************************************************************************)
(* pathlib globbing.  Files of a list carry top = TRUE when they lie       *)
(* directly in the input directory.  glob("*.x") lists the top-level       *)
(* files; glob("**/*.x") lists the top-level files and then the nested     *)
(* ones, since ** also matches no directory at all.                        *)
(***************************************************************************)
IsTop(f) == f.top
IsNested(f) == ~f.top

Glob(files) == SelectSeq(files, IsTop)

RGlob(files) == SelectSeq(files, IsTop) \o SelectSeq(files, IsNested)

(***************************************************************************)
(* data_format_detector.py                                                 *)
(***************************************************************************)

\* json_files = list(input_path.glob("*.json")) + list(input_path.glob("**/*.json"))
json_files(tree) == Glob(tree.jsons) \o RGlob(tree.jsons)

\* The contribution of one entry of json_files to coco_indicators.
JsonScore(doc) ==
    IF ~doc.parses THEN 0
    ELSE IF doc.isDict /\ \A key \in {"images", "annotations", "categories"} : key \in doc.keys
         THEN 3
    ELSE IF doc.isDict /\ \E key \in {"images", "annotations"} : key \in doc.keys
         THEN 1
    ELSE 0

coco_indicators(tree) ==
    LET jf == json_files(tree)
    IN  SumSeq([i \in DOMAIN jf |-> JsonScore(jf[i].doc)])

\* txt_file.name.lower() on the names the model uses.
Lower(name) ==
    CASE name = "Classes.TXT" -> "classes.txt"
      [] name = "OBJ.names"   -> "obj.names"
      [] OTHER                -> name

IsClassesFile(f) == Lower(f.name) \in {"classes.txt", "class.names", "obj.names"}

\* A text token and what float(token) makes of it, in tenths.
FloatRaises(tok) == tok \notin {"0", "0.5", "1", "1.5", "-0.5"}
FloatTenths(tok) ==
    CASE tok = "0"    -> 0
      [] tok = "0.5"  -> 5
      [] tok = "1"    -> 10
      [] tok = "1.5"  -> 15
      [] tok = "-0.5" -> -5

\* One line of an annotation file, split on white space.
ValidYoloLine(parts) ==
    /\ Len(parts) >= 5
    /\ \A i \in 2..5 : ~FloatRaises(parts[i])
    /\ \A i \in 2..5 : 0 <= FloatTenths(parts[i]) /\ FloatTenths(parts[i]) <= 10

\* Whether an inspected image adds to yolo_annotation_count.
HasYoloAnnotation(img) ==
    /\ img.ann.exists
    /\ img.ann.readable
    /\ Len(SelectSeq(img.ann.lines, ValidYoloLine)) > 0

\* txt_files: the class files and notes of the tree and the annotation
\* files lying next to its images.
AnnotationFiles(tree) ==
    LET withAnn(img) == img.ann.exists
        imgs == SelectSeq(tree.images, withAnn)
    IN  [i \in DOMAIN imgs |-> [top |-> imgs[i].top, name |-> "annotation"]]

txt_files(tree) ==
    LET all == tree.txts \o AnnotationFiles(tree)
    IN  Glob(all) \o RGlob(all)

\* image_files, for input images of a single extension: glob("*.jpg") and
\* then glob("**/*.jpg").
image_files(tree) == Glob(tree.images) \o RGlob(tree.images)

InspectLimit == 10

yolo_annotation_count(tree) ==
    Len(SelectSeq(Take(image_files(tree), InspectLimit), HasYoloAnnotation))

yolo_indicators(tree) ==
    LET classes == SelectSeq(txt_files(tree), IsClassesFile)
        n == yolo_annotation_count(tree)
    IN  2 * Len(classes) + (IF n >= 3 THEN 3 ELSE IF n > 0 THEN 1 ELSE 0)

\* The confidence without its base of 0.3.
ConfidenceNoBaseMutant(score) == Min(90, score * 15)

\* min(0.9, 0.3 + score * 0.15), in hundredths.
Confidence(score) == Min(90, 30 + score * 15)

\* detection_results["file_analysis"] as initialised; the model keeps the
\* three counts of the dict the analysis stores there.
NoAnalysis ==
    [total_json_files |-> 0, total_image_files |-> 0, yolo_annotation_files |-> 0]

Decision(fmt, conf, needed, skip, coco, yolo, scored) ==
    [detected_format |-> fmt, confidence |-> conf, conversion_needed |-> needed,
     skip_conversion |-> skip, coco_score |-> coco, yolo_score |-> yolo,
     has_scores |-> scored, file_analysis |-> NoAnalysis]

\* detection_results as initialised, and as the fallback of a missing input.
InitialDecision == Decision("unknown", 0, TRUE, FALSE, 0, 0, FALSE)

\* "Determine format based on indicators"
DetermineFormatStrictMutant(coco, yolo) ==
    IF coco > yolo /\ coco >= 2
    THEN Decision("coco", Confidence(coco), TRUE, FALSE, coco, yolo, TRUE)
    ELSE IF yolo >= 2
    THEN Decision("yolo", Confidence(yolo), FALSE, TRUE, coco, yolo, TRUE)
    ELSE Decision("unknown", 0, TRUE, FALSE, coco, yolo, TRUE)

DetermineFormatWrongScoreMutant(coco, yolo) ==
    IF coco >= yolo /\ coco >= 2
    THEN Decision("coco", Confidence(coco), TRUE, FALSE, coco, yolo, TRUE)
    ELSE IF coco >= 2
    THEN Decision("yolo", Confidence(yolo), FALSE, TRUE, coco, yolo, TRUE)
    ELSE Decision("unknown", 0, TRUE, FALSE, coco, yolo, TRUE)

DetermineFormat(coco, yolo) ==
    IF coco >= yolo /\ coco >= 2
    THEN Decision("coco", Confidence(coco), TRUE, FALSE, coco, yolo, TRUE)
    ELSE IF yolo >= 2
    THEN Decision("yolo", Confidence(yolo), FALSE, TRUE, coco, yolo, TRUE)
    ELSE Decision("unknown", 0, TRUE, FALSE, coco, yolo, TRUE)

\* The except branch of the analysis: only detected_format changes.
ErrorDecision == [InitialDecision EXCEPT !.detected_format = "error"]

\* "Store analysis details"
file_analysis(tree) ==
    [total_json_files |-> Len(json_files(tree)),
     total_image_files |-> Len(image_files(tree)),
     yolo_annotation_files |-> yolo_annotation_count(tree)]

\* detection_results at the end of the analysis.  scan_raises: a directory
\* listing of the analysis raises an OSError.
detection_results(tree, scan_raises) ==
    IF ~tree.exists THEN InitialDecision
    ELSE IF scan_raises THEN ErrorDecision
    ELSE [DetermineFormat(coco_indicators(tree), yolo_indicators(tree))
             EXCEPT !.file_analysis = file_analysis(tree)]

\* all_files = list(input_path.rglob("*")): every entry below the input
\* directory, the sub-directory included.
AllFiles(tree) ==
    LET files == tree.jsons \o tree.txts \o tree.images \o AnnotationFiles(tree)
        nested == SelectSeq(files, IsNested)
    IN  [i \in 1..Len(files) |-> <<"file", i>>]
        \o (IF nested = <<>> THEN <<>> ELSE << <<"dir", 1>> >>)
        \o [i \in 1..tree.others |-> <<"other", i>>]

ReportLimit == 20

IsCocoEntry(f) == JsonScore(f.doc) = 3

\* detailed_report["files_analyzed"] at the end of the analysis.
files_analyzed(tree, scan_raises) ==
    IF ~tree.exists THEN <<>>
    ELSE IF scan_raises THEN Take(AllFiles(tree), ReportLimit)
    ELSE LET coco == SelectSeq(json_files(tree), IsCocoEntry)
             classes == SelectSeq(txt_files(tree), IsClassesFile)
         IN  Take(AllFiles(tree), ReportLimit)
             \o [i \in DOMAIN coco |-> <<"json", i>>]
             \o [i \in DOMAIN classes |-> <<"txt", i>>]

detailed_report(tree, scan_raises) ==
    [files_analyzed |-> files_analyzed(tree, scan_raises),
     error |-> IF ~tree.exists THEN "Input path does not exist" ELSE "none"]

\* The files detect_data_format leaves behind: <<format_info, format_report>>.
\* On a missing input one try block writes both files in turn; otherwise each
\* file has a try block of its own.
WrittenFiles(tree, scan_raises, format_info, format_report) ==
    LET info == detection_results(tree, scan_raises)
        report == detailed_report(tree, scan_raises)
        infoOk == ~MakedirsRaises(format_info)
        reportOk == ~MakedirsRaises(format_report)
    IN  IF ~tree.exists
        THEN << IF infoOk THEN Written(info) ELSE Absent,
                IF infoOk /\ reportOk THEN Written(report) ELSE Absent >>
        ELSE << IF infoOk THEN Written(info) ELSE Absent,
                IF reportOk THEN Written(report) ELSE Absent >>

\* The results of a stage that has written none.
NoResults == [processing_type |-> "none"]

(***************************************************************************)
(* unified_data_processor.py: convert_coco_to_yolo                         *)
(*                                                                         *)
(* A directory is a function from paths <<directory, name>> to contents;   *)
(* a content is its kind ("dir", "copy" of an input file, "stale" earlier  *)
(* output, "labels", "classes") and its lines.                             *)
(***************************************************************************)
Content(kind, lines) == [kind |-> kind, lines |-> lines]

NoDirectory == [exists |-> FALSE, files |-> <<>>]
Directory(files) == [exists |-> TRUE, files |-> files]
EmptyFiles == [p \in {} |-> Content("dir", <<>>)]

\* d with path p holding content c (created or overwritten).
Put(files, p, c) == [q \in DOMAIN files \cup {p} |-> IF q = p THEN c ELSE files[q]]

\* d with every path of `more` holding more's content.
PutAll(files, more) ==
    [q \in DOMAIN files \cup DOMAIN more |-> IF q \in DOMAIN more THEN more[q] ELSE files[q]]

\* Path.mkdir(exist_ok=True) of a sub-directory: an existing one is kept.
Mkdir(files, p) == IF p \in DOMAIN files THEN files ELSE Put(files, p, Content("dir", <<>>))

\* Path(filename).stem + ".txt" on the file names the model uses.
LabelName(file_name) ==
    CASE file_name = "a.jpg"     -> "a.txt"
      [] file_name = "b.png"     -> "b.txt"
      [] file_name = "raw/a.jpg" -> "a.txt"
      [] OTHER                   -> "img.txt"

\* The quotient num / den as ":.6f" prints it, in millionths: rounded to the
\* nearest, and to the even neighbour half-way between two (the quotients
\* that fall half-way in the model are exact binary fractions).
Millionths(num, den) ==
    LET q == (num * 1000000) \div den
        r == (num * 1000000) - q * den
    IN  IF 2 * r > den THEN q + 1
        ELSE IF 2 * r < den THEN q
        ELSE IF q % 2 = 0 THEN q ELSE q + 1

\* x, y, w, h = bbox and the divisions by the image size raise on a bbox of
\* another length and on a zero size.
BoxRaises(bbox, img_width, img_height) ==
    Len(bbox) # 4 \/ img_width = 0 \/ img_height = 0

\* The label line of one annotation: class id and the four geometry values.
YoloLineCornerMutant(ann, img_width, img_height) ==
    LET x == ann.bbox[1]
        y == ann.bbox[2]
        w == ann.bbox[3]
        h == ann.bbox[4]
    IN  << IF ann.category_id > 0 THEN ann.category_id - 1 ELSE 0,
           Millionths(x, img_width),
           Millionths(y, img_height),
           Millionths(w, img_width),
           Millionths(h, img_height) >>

YoloLine(ann, img_width, img_height) ==
    LET x == ann.bbox[1]
        y == ann.bbox[2]
        w == ann.bbox[3]
        h == ann.bbox[4]
    IN  << IF ann.category_id > 0 THEN ann.category_id - 1 ELSE 0,
           Millionths(2 * x + w, 2 * img_width),
           Millionths(2 * y + h, 2 * img_height),
           Millionths(w, img_width),
           Millionths(h, img_height) >>

\* yolo_lines of one image: the lines appended before an annotation raises.
RECURSIVE YoloLines(_, _, _)
YoloLines(anns, img_width, img_height) ==
    IF anns = <<>> THEN [lines |-> <<>>, raised |-> FALSE]
    ELSE LET ann == Head(anns)
         IN  IF ~ann.has_bbox \/ ~ann.has_category
             THEN YoloLines(Tail(anns), img_width, img_height)
             ELSE IF BoxRaises(ann.bbox, img_width, img_height)
             THEN [lines |-> <<>>, raised |-> TRUE]
             ELSE LET rest == YoloLines(Tail(anns), img_width, img_height)
                  IN  [lines |-> <<YoloLine(ann, img_width, img_height)>> \o rest.lines,
                       raised |-> rest.raised]

\* all_categories[cat["id"]] = cat["name"], in list order.
RECURSIVE MergeCategories(_, _)
MergeCategories(all_categories, categories) ==
    IF categories = <<>> THEN all_categories
    ELSE LET cat == Head(categories)
         IN  MergeCategories(
                 [i \in DOMAIN all_categories \cup {cat.id} |->
                     IF i = cat.id THEN cat.name ELSE all_categories[i]],
                 Tail(categories))

DefaultWidth == 640
DefaultHeight == 480

\* image_mapping: a later record of an id replaces an earlier one.
RECURSIVE ImageMapping(_)
ImageMapping(images) ==
    IF images = <<>> THEN [i \in {} |-> 0]
    ELSE LET img == images[Len(images)]
             before == ImageMapping(SubSeq(images, 1, Len(images) - 1))
             info == [filename |-> img.file_name,
                      width |-> IF img.has_dims THEN img.width ELSE DefaultWidth,
                      height |-> IF img.has_dims THEN img.height ELSE DefaultHeight]
         IN  [i \in DOMAIN before \cup {img.id} |-> IF i = img.id THEN info ELSE before[i]]

\* The keys of annotations_by_image, in insertion order.
RECURSIVE ImageIds(_, _)
ImageIds(annotations, seen) ==
    IF annotations = <<>> THEN <<>>
    ELSE LET id == Head(annotations).image_id
         IN  IF id \in seen THEN ImageIds(Tail(annotations), seen)
             ELSE <<id>> \o ImageIds(Tail(annotations), seen \cup {id})

\* The loop over annotations_by_image: one label file per image that the
\* mapping knows, until an annotation raises.
RECURSIVE ConvertImages(_, _, _, _)
ConvertImages(ids, annotations, image_mapping, acc) ==
    IF ids = <<>> THEN acc
    ELSE LET img_id == Head(ids)
             OfImage(ann) == ann.image_id = img_id
         IN  IF img_id \notin DOMAIN image_mapping
             THEN ConvertImages(Tail(ids), annotations, image_mapping, acc)
             ELSE LET img_info == image_mapping[img_id]
                      y == YoloLines(SelectSeq(annotations, OfImage),
                                     img_info.width, img_info.height)
                      counted == [acc EXCEPT !.converted = @ + Len(y.lines)]
                  IN  IF y.raised THEN [counted EXCEPT !.raised = TRUE]
                      ELSE ConvertImages(Tail(ids), annotations, image_mapping,
                               [counted EXCEPT
                                   !.labels = Put(@, <<"labels", LabelName(img_info.filename)>>,
                                                  Content("labels", y.lines)),
                                   !.files_processed = @ + 1])

\* The body of "for json_file in coco_files" with its except clause.
ConvertFile(json_file, acc) ==
    LET coco_data == json_file.doc
    IN  IF ~coco_data.parses
        THEN [acc EXCEPT !.errors = Append(@, "COCO processing error")]
        ELSE IF ~coco_data.isDict \/ "images" \notin coco_data.keys THEN acc
        ELSE LET merged == [acc EXCEPT !.all_categories =
                               IF "categories" \in coco_data.keys
                               THEN MergeCategories(@, coco_data.categories) ELSE @]
                 done == IF "annotations" \in coco_data.keys
                         THEN ConvertImages(ImageIds(coco_data.annotations, {}),
                                            coco_data.annotations,
                                            ImageMapping(coco_data.images), merged)
                         ELSE merged
             IN  IF done.raised
                 THEN [done EXCEPT !.raised = FALSE,
                                   !.errors = Append(@, "COCO processing error")]
                 ELSE done

\* The loop over coco_files, ended by the first file that fails.
RECURSIVE ConvertFilesStopMutant(_, _)
ConvertFilesStopMutant(coco_files, acc) ==
    IF coco_files = <<>> THEN acc
    ELSE IF Len(ConvertFile(Head(coco_files), acc).errors) > Len(acc.errors)
    THEN ConvertFile(Head(coco_files), acc)
    ELSE ConvertFilesStopMutant(Tail(coco_files), ConvertFile(Head(coco_files), acc))

RECURSIVE ConvertFiles(_, _)
ConvertFiles(coco_files, acc) ==
    IF coco_files = <<>> THEN acc
    ELSE ConvertFiles(Tail(coco_files), ConvertFile(Head(coco_files), acc))

\* sorted(all_categories.items()): the names by ascending id.
RECURSIVE SortedNames(_)
SortedNames(all_categories) ==
    IF DOMAIN all_categories = {} THEN <<>>
    ELSE LET least == CHOOSE i \in DOMAIN all_categories :
                          \A j \in DOMAIN all_categories : i <= j
         IN  <<all_categories[least]>>
             \o SortedNames([i \in DOMAIN all_categories \ {least} |-> all_categories[i]])

\* The content written to classes.txt.
ClassesLines(all_categories) ==
    IF DOMAIN all_categories # {} THEN SortedNames(all_categories) ELSE <<"object">>

\* shutil.copy2(img_file, images_dir / img_file.name) for every listed image.
RECURSIVE CopyImages(_, _)
CopyImages(files, listed) ==
    IF listed = <<>> THEN files
    ELSE CopyImages(Put(files, <<"images", Head(listed).name>>, Content("copy", <<>>)),
                    Tail(listed))

\* The image files the conversion copies, for input images of a single
\* extension: glob("*.jpg") and then glob("**/*.jpg").
copied_image_files(tree) == Glob(tree.images) \o RGlob(tree.images)

\* coco_files = list(input_path.glob("*.json"))
coco_files(tree) == Glob(tree.jsons)

\* convert_coco_to_yolo(input_path, output_path, results): the value
\* returned, the output directory and the results dict afterwards.
convert_coco_to_yolo(tree, output, res) ==
    LET made == Mkdir(Mkdir(output.files, <<".", "images">>), <<".", "labels">>)
    IN  IF coco_files(tree) = <<>>
        THEN [success |-> TRUE,
              output |-> Directory(made),
              results |-> [res EXCEPT !.warnings = Append(@, "No JSON files found")]]
        ELSE LET acc == ConvertFiles(coco_files(tree),
                            [all_categories |-> [i \in {} |-> ""],
                             labels |-> EmptyFiles,
                             converted |-> 0,
                             files_processed |-> res.files_processed,
                             errors |-> res.errors,
                             raised |-> FALSE])
                 listed == copied_image_files(tree)
                 files == Put(CopyImages(PutAll(made, acc.labels), listed),
                              <<".", "classes.txt">>,
                              Content("classes", ClassesLines(acc.all_categories)))
             IN  [success |-> TRUE,
                  output |-> Directory(files),
                  results |-> [res EXCEPT !.files_processed = acc.files_processed,
                                          !.errors = acc.errors,
                                          !.annotations_converted = acc.converted,
                                          !.images_copied = Len(listed)]]

(***************************************************************************)
(* unified_data_processor.py: copy_yolo_data_directly                      *)
(***************************************************************************)
DirOf(f) == IF f.top THEN "." ELSE "sub"

\* img_file.with_suffix(".txt").name on the image names the model uses.
WithSuffixTxt(name) ==
    CASE name = "a.jpg" -> "a.txt"
      [] name = "b.png" -> "b.txt"
      [] OTHER          -> "img.txt"

\* The entries below the input directory: its files, the annotation files
\* next to its images and the sub-directory when a file lies in it.
TreeEntries(tree) ==
    LET files == tree.jsons \o tree.txts \o tree.images
        withAnn(img) == img.ann.exists
        annotated == SelectSeq(tree.images, withAnn)
    IN  { <<DirOf(files[i]), files[i].name>> : i \in DOMAIN files }
        \cup { <<DirOf(annotated[i]), WithSuffixTxt(annotated[i].name)>> : i \in DOMAIN annotated }
        \cup (IF \E i \in DOMAIN files : ~files[i].top THEN { <<".", "sub">> } ELSE {})

\* What shutil.copytree(input_path, output_path) makes of the entries.
CopyOf(entries) ==
    [p \in entries |-> IF p = <<".", "sub">> THEN Content("dir", <<>>)
                                            ELSE Content("copy", <<>>)]

Restrict(files, paths) == [p \in DOMAIN files \cap paths |-> files[p]]

NoFault == [kind |-> "none", part |-> {}]

\* What can go wrong in the copy: shutil.rmtree raises having removed all
\* but `part` of the old output, or shutil.copytree raises having copied
\* `part` of the input.
Faults(tree, output) ==
    {NoFault}
    \cup (IF output.exists
          THEN { [kind |-> "rmtree", part |-> k] : k \in (SUBSET DOMAIN output.files) \ {{}} }
          ELSE {})
    \cup { [kind |-> "copytree", part |-> c] : c \in (SUBSET TreeEntries(tree)) \ {TreeEntries(tree)} }

\* The try body without the removal of the old output.
CopyWithoutRemoveMutant(tree, output) ==
    Directory(PutAll(output.files, CopyOf(TreeEntries(tree))))

\* if output_path.exists(): shutil.rmtree(output_path)
\* shutil.copytree(input_path, output_path)
RemoveAndCopy(tree, output) == Directory(CopyOf(TreeEntries(tree)))

copy_yolo_data_directly(tree, output, res, fault) ==
    IF fault.kind = "none"
    THEN LET copied == RemoveAndCopy(tree, output)
             input_files == Cardinality(TreeEntries(tree))
             output_files == Cardinality(DOMAIN copied.files)
         IN  [success |-> TRUE,
              output |-> copied,
              results |-> [res EXCEPT
                  !.files_processed = input_files,
                  !.files_copied = output_files,
                  !.warnings = IF input_files # output_files
                               THEN Append(@, "File count mismatch") ELSE @]]
    ELSE [success |-> FALSE,
          output |-> IF fault.kind = "rmtree"
                     THEN Directory(Restrict(output.files, fault.part))
                     ELSE Directory(CopyOf(fault.part)),
          results |-> [res EXCEPT !.errors = Append(@, "Copy error")]]

(***************************************************************************)
(* unified_data_processor.py: process_data                                 *)
(***************************************************************************)
\* The decision file: missing, not JSON, a JSON value that is no object, or
\* an object with or without the detected_format key.
DecisionFile(exists, parses, isDict, has_format, fmt) ==
    [exists |-> exists, parses |-> parses, isDict |-> isDict,
     has_format |-> has_format, detected_format |-> fmt]

MissingDecision == DecisionFile(FALSE, FALSE, FALSE, FALSE, "")
UnparsableDecision == DecisionFile(TRUE, FALSE, FALSE, FALSE, "")
ListDecision == DecisionFile(TRUE, TRUE, FALSE, FALSE, "")
EmptyObjectDecision == DecisionFile(TRUE, TRUE, TRUE, FALSE, "")
ObjectDecision(fmt) == DecisionFile(TRUE, TRUE, TRUE, TRUE, fmt)

\* format_info after "Load format detection results": the fallback dict
\* when the file is missing or json.load raises, else the value loaded.
LoadFormatInfo(file) ==
    IF ~file.exists \/ ~file.parses THEN ObjectDecision("unknown") ELSE file

\* format_info.get("detected_format", "unknown") on a dict.
GetDetectedFormat(format_info) ==
    IF format_info.has_format THEN format_info.detected_format ELSE "unknown"

ProcessingResults(fmt) ==
    [processing_type |-> "none", success |-> FALSE, detected_format |-> fmt,
     files_processed |-> 0, errors |-> <<>>, warnings |-> <<>>,
     annotations_converted |-> 0, images_copied |-> 0, files_copied |-> 0]

\* output_path.mkdir(parents=True, exist_ok=True)
MkdirOutput(output) == IF output.exists THEN output ELSE Directory(EmptyFiles)

Outcome(ret, output, report, res) ==
    [returned |-> ret, output |-> output, report |-> report, results |-> res]

\* "Write processing report": makedirs and open inside one try block.
WriteReport(processing_report, res) ==
    IF MakedirsRaises(processing_report) THEN Absent ELSE Written(res)

\* "Write processing report" after the branch has run.
Finish(processing_report, b) ==
    Outcome("ok", b.output, WriteReport(processing_report, b.results), b.results)

\* results["success"] = the value the conversion or the copy returned.
Branched(r) ==
    [output |-> r.output, results |-> [r.results EXCEPT !.success = r.success]]

\* The branch on detected_format_type being taken on any format but "coco".
BranchYoloOnlyMutant(tree, fmt, output, res, fault) ==
    IF fmt = "yolo"
    THEN Branched(copy_yolo_data_directly(tree, output,
                      [res EXCEPT !.processing_type = "yolo_direct_copy"], fault))
    ELSE [output |-> MkdirOutput(output),
          results |-> [res EXCEPT !.processing_type = "unknown_format",
                                  !.warnings = Append(@, "Unsupported format"),
                                  !.success = TRUE]]

\* "Determine processing type based on detected format"
Branch(tree, fmt, output, res, fault) ==
    IF fmt = "coco"
    THEN Branched(convert_coco_to_yolo(tree, output,
                      [res EXCEPT !.processing_type = "coco_to_yolo_conversion"]))
    ELSE IF fmt = "yolo"
    THEN Branched(copy_yolo_data_directly(tree, output,
                      [res EXCEPT !.processing_type = "yolo_direct_copy"], fault))
    ELSE [output |-> MkdirOutput(output),
          results |-> [res EXCEPT !.processing_type = "unknown_format",
                                  !.warnings = Append(@, "Unsupported format"),
                                  !.success = TRUE]]

\* process_data(input_data, detected_format, output_data, processing_report)
process_data(tree, detected_format, output, processing_report, fault) ==
    LET format_info == LoadFormatInfo(detected_format)
    IN  IF ~format_info.isDict
        THEN \* format_info.get raises AttributeError, which nothing catches
             Outcome("raised", output, Absent, NoResults)
        ELSE LET fmt == GetDetectedFormat(format_info)
                 res == ProcessingResults(fmt)
             IN  IF ~tree.exists
                 THEN LET failed == [res EXCEPT !.errors = Append(@, "Input path not found")]
                      IN  IF OpenRaises(processing_report)
                          THEN Outcome("raised", MkdirOutput(output), Absent, failed)
                          ELSE Outcome("ok", MkdirOutput(output), Written(failed), failed)
                 ELSE Finish(processing_report, Branch(tree, fmt, output, res, fault))

(***************************************************************************)
(* Input trees of the detector.  A list of files is given up to the order  *)
(* of the listing: the entries of a list are drawn in non-decreasing order *)
(* of their kind.                                                          *)
(***************************************************************************)
NonDecreasing(n, m) ==
    {s \in [1..n -> 1..m] : \A i \in 1..(n - 1) : s[i] <= s[i + 1]}

Lists(kinds, max) ==
    UNION { { [i \in 1..n |-> kinds[s[i]]] : s \in NonDecreasing(n, Len(kinds)) }
            : n \in 0..max }

JsonFile(top, doc) == [top |-> top, name |-> "data.json", doc |-> doc]
TxtFile(top, name) == [top |-> top, name |-> name]
ImageFile(top, name, ann) == [top |-> top, name |-> name, ann |-> ann]

Tree(jsons, txts, images, others) ==
    [exists |-> TRUE, jsons |-> jsons, txts |-> txts, images |-> images,
     others |-> others]

MissingTree ==
    [exists |-> FALSE, jsons |-> <<>>, txts |-> <<>>, images |-> <<>>, others |-> 0]

AllKeys == {"images", "annotations", "categories"}

DetectDocs == << UnparsableDoc, ListDoc, KeysDoc({"categories"}),
                 KeysDoc({"annotations", "categories"}), KeysDoc(AllKeys) >>

JsonKinds ==
    [i \in 1..(2 * Len(DetectDocs)) |->
        JsonFile(i <= Len(DetectDocs), DetectDocs[((i - 1) % Len(DetectDocs)) + 1])]

GoodLine == <<"0", "0.5", "0.5", "1", "0">>
ShortLine == <<"0", "0.5", "0.5", "1">>
OutOfRangeLine == <<"0", "0.5", "1.5", "0.5", "0.5">>
NegativeLine == <<"0", "-0.5", "0.5", "0.5", "0.5">>
NonNumericLine == <<"0", "0.5", "0.5", "center", "0.5">>
NamedClassLine == <<"person", "0", "1", "0.5", "0.5", "0.9">>

Annotations == << NoFile, Lines(<<ShortLine, GoodLine>>),
                 Lines(<<OutOfRangeLine, NonNumericLine>>) >>

ImageKinds ==
    [i \in 1..(2 * Len(Annotations)) |->
        ImageFile(i <= Len(Annotations), "img.jpg",
                  Annotations[((i - 1) % Len(Annotations)) + 1])]

TxtLists == { <<>>,
              << TxtFile(TRUE, "classes.txt") >>,
              << TxtFile(FALSE, "classes.txt") >>,
              << TxtFile(FALSE, "Classes.TXT"), TxtFile(TRUE, "notes.txt") >>,
              << TxtFile(TRUE, "classes.txt"), TxtFile(FALSE, "OBJ.names") >> }

\* A few fixed lists, used where the other lists vary.
FixedJsonLists == { <<>>,
                    << JsonFile(TRUE, KeysDoc(AllKeys)) >>,
                    << JsonFile(FALSE, KeysDoc(AllKeys)) >>,
                    << JsonFile(FALSE, KeysDoc(AllKeys)), JsonFile(FALSE, KeysDoc(AllKeys)) >>,
                    << JsonFile(FALSE, KeysDoc({"annotations", "categories"})) >> }

FixedImageLists ==
    { <<>>,
      << ImageFile(FALSE, "img.jpg", Lines(<<GoodLine>>)),
         ImageFile(FALSE, "img.jpg", Lines(<<NamedClassLine>>)),
         ImageFile(FALSE, "img.jpg", Lines(<<NegativeLine, GoodLine>>)) >>,
      << ImageFile(TRUE, "img.jpg", Lines(<<GoodLine>>)),
         ImageFile(TRUE, "img.jpg", Unreadable) >> }

\* Numbers of further files (neither JSON, text nor image) in a large tree.
OtherCounts == {17, 19, 20, 25}

DetectTrees ==
    {MissingTree}
    \cup { Tree(j, t, i, 0) : j \in Lists(JsonKinds, MaxJson), t \in TxtLists,
                              i \in FixedImageLists }
    \cup { Tree(j, t, i, 0) : j \in FixedJsonLists, t \in TxtLists,
                              i \in Lists(ImageKinds, MaxImages) }
    \cup { Tree(j, t, <<>>, n) : j \in FixedJsonLists, t \in TxtLists, n \in OtherCounts }

(***************************************************************************)
(* COCO documents and input trees of the converter and the processor.      *)
(***************************************************************************)
MaxConvJson == 2    \* top-level JSON files in a converter input tree
MaxRuns == 2        \* runs of the processor over one output directory

Image(id, file_name, has_dims, width, height) ==
    [id |-> id, file_name |-> file_name, has_dims |-> has_dims,
     width |-> width, height |-> height]

Ann(image_id, has_bbox, bbox, has_category, category_id) ==
    [image_id |-> image_id, has_bbox |-> has_bbox, bbox |-> bbox,
     has_category |-> has_category, category_id |-> category_id]

Cat(id, name) == [id |-> id, name |-> name]

SizedImage == Image(1, "a.jpg", TRUE, 100, 200)
UnsizedImage == Image(1, "raw/a.jpg", FALSE, 0, 0)
ZeroWidthImage == Image(2, "b.png", TRUE, 0, 480)

\* Boxes inside a 100 x 200 image, and boxes of a larger image whose record
\* gives no size.
SizedBoxes == { <<10, 20, 30, 40>>, <<0, 0, 100, 200>>, <<1, 1, 1, 1>>, <<67, 150, 33, 50>> }
UnsizedBoxes == { <<10, 20, 30, 40>>, <<600, 100, 100, 100>>, <<0, 0, 640, 480>>, <<4, 7, 12, 13>> }

CocoDoc(images, annotations, categories) ==
    Doc(TRUE, TRUE, AllKeys, images, annotations, categories)

\* One image and one box.
BoxDocs ==
    { CocoDoc(<<SizedImage>>, <<Ann(1, TRUE, box, TRUE, 1)>>, <<Cat(1, "cat")>>) :
        box \in SizedBoxes }
    \cup { CocoDoc(<<UnsizedImage>>, <<Ann(1, TRUE, box, TRUE, 1)>>, <<Cat(1, "cat")>>) :
        box \in UnsizedBoxes }

\* Annotations that raise, that are skipped, or that name no known image.
OddDocs ==
    { CocoDoc(<<SizedImage>>,
              <<Ann(1, TRUE, <<10, 20, 30, 40>>, TRUE, 2), Ann(1, TRUE, <<10, 20, 30>>, TRUE, 1)>>,
              <<Cat(2, "dog")>>),
      CocoDoc(<<SizedImage, ZeroWidthImage>>,
              <<Ann(1, TRUE, <<10, 20, 30, 40>>, TRUE, 0), Ann(2, TRUE, <<1, 1, 1, 1>>, TRUE, 1)>>,
              <<Cat(3, "bird")>>),
      CocoDoc(<<SizedImage>>,
              <<Ann(1, FALSE, <<>>, TRUE, 1), Ann(7, TRUE, <<1, 1, 1, 1>>, TRUE, 1),
                Ann(1, TRUE, <<0, 0, 100, 200>>, FALSE, 0)>>,
              <<>>) }

\* Category tables alone.
CategoryDocs ==
    { Doc(TRUE, TRUE, {"images", "categories"}, <<>>, <<>>, cats) :
        cats \in { <<Cat(2, "dog"), Cat(1, "cat")>>, <<Cat(1, "kitten")>>,
                   <<Cat(5, "ant"), Cat(0, "thing")>> } }
    \cup { Doc(TRUE, TRUE, {"categories"}, <<>>, <<>>, <<Cat(4, "fish")>>),
           KeysDoc({"images"}), UnparsableDoc, ListDoc }

ConvDocs == BoxDocs \cup OddDocs \cup CategoryDocs

Sequences(S, max) == UNION { [1..n -> S] : n \in 0..max }

NamedJson(top, name, doc) == [top |-> top, name |-> name, doc |-> doc]

ConvJsonLists ==
    { [i \in DOMAIN docs |-> NamedJson(TRUE, "ann.json", docs[i])] :
        docs \in Sequences(ConvDocs, MaxConvJson) }
    \cup { << NamedJson(FALSE, "ann.json",
                        CocoDoc(<<SizedImage>>, <<Ann(1, TRUE, <<10, 20, 30, 40>>, TRUE, 1)>>,
                                <<Cat(1, "cat")>>)) >> }

ConvImageLists ==
    { <<>>,
      << ImageFile(TRUE, "a.jpg", NoFile), ImageFile(FALSE, "a.jpg", NoFile),
         ImageFile(FALSE, "b.png", NoFile) >> }

ConvTrees == { Tree(j, <<>>, i, 0) : j \in ConvJsonLists, i \in ConvImageLists }

\* What the output directory may hold before a run.
StaleFiles ==
    [p \in { <<".", "stale.txt">>, <<".", "classes.txt">>, <<"labels", "old.txt">> } |->
        Content("stale", <<>>)]

InitialOutputs == { NoDirectory, Directory(EmptyFiles), Directory(StaleFiles) }

\* Input trees of the processor.
ExampleCoco ==
    CocoDoc(<<SizedImage>>, <<Ann(1, TRUE, <<10, 20, 30, 40>>, TRUE, 1)>>,
            <<Cat(1, "cat"), Cat(2, "dog")>>)

ProcTrees ==
    { MissingTree,
      Tree(<<>>, <<>>, <<>>, 0),
      Tree(<<>>, <<TxtFile(TRUE, "classes.txt")>>,
           <<ImageFile(TRUE, "a.jpg", Lines(<<GoodLine>>)),
             ImageFile(FALSE, "b.png", Lines(<<GoodLine>>))>>, 0),
      Tree(<<>>, <<TxtFile(FALSE, "classes.txt")>>,
           <<ImageFile(TRUE, "a.jpg", NoFile)>>, 0),
      Tree(<<NamedJson(TRUE, "ann.json", ExampleCoco)>>, <<>>,
           <<ImageFile(TRUE, "a.jpg", NoFile)>>, 0),
      Tree(<<NamedJson(TRUE, "ann.json", UnparsableDoc), NamedJson(TRUE, "val.json", ExampleCoco)>>,
           <<>>, <<>>, 0),
      Tree(<<NamedJson(FALSE, "ann.json", ExampleCoco)>>, <<>>,
           <<ImageFile(FALSE, "a.jpg", NoFile)>>, 0) }

DecisionFiles ==
    { MissingDecision, UnparsableDecision, ListDecision, EmptyObjectDecision }
    \cup { ObjectDecision(fmt) : fmt \in {"coco", "yolo", "unknown", "error", "COCO", "voc"} }

(***************************************************************************)
(* State machine.                                                          *)
(***************************************************************************)
Init ==
    /\ pc = "start"
    /\ input_data = MissingTree
    /\ format_info_file = Absent
    /\ format_report_file = Absent
    /\ detected_format_file = MissingDecision
    /\ output_data = NoDirectory
    /\ processing_report_file = Absent
    /\ results = NoResults
    /\ returned = "none"
    /\ args = <<>>
    /\ runs = 0

\* One run of detect_data_format(input_data, format_info, format_report).
\* Every exception of the function is caught inside it: it returns.
Detect ==
    /\ pc = "start"
    /\ \E tree \in DetectTrees, scan_raises \in BOOLEAN,
          format_info \in Paths, format_report \in Paths :
          LET written == WrittenFiles(tree, scan_raises, format_info, format_report)
          IN  /\ tree.exists \/ ~scan_raises
              /\ input_data' = tree
              /\ args' = <<format_info, format_report, scan_raises>>
              /\ format_info_file' = written[1]
              /\ format_report_file' = written[2]
    /\ pc' = "detected"
    /\ returned' = "ok"
    /\ UNCHANGED <<detected_format_file, output_data, processing_report_file,
                   results, runs>>

SpecDetect == Init /\ [][Detect]_vars

\* The processor starts from some input tree and some earlier output.
InitProcess ==
    /\ pc = "start"
    /\ input_data \in ProcTrees
    /\ output_data \in InitialOutputs
    /\ format_info_file = Absent
    /\ format_report_file = Absent
    /\ detected_format_file = MissingDecision
    /\ processing_report_file = Absent
    /\ results = NoResults
    /\ returned = "none"
    /\ args = <<>>
    /\ runs = 0

\* One run of process_data(input_data, detected_format, output_data,
\* processing_report) over the output directory as the last run left it.
Process ==
    /\ runs < MaxRuns
    /\ \E detected_format \in DecisionFiles, processing_report \in Paths :
        \E fault \in IF input_data.exists /\ detected_format = ObjectDecision("yolo")
                      THEN Faults(input_data, output_data) ELSE {NoFault} :
          \E o \in {process_data(input_data, detected_format, output_data,
                                 processing_report, fault)} :
              /\ detected_format_file' = detected_format
              /\ args' = <<processing_report, fault>>
              /\ output_data' = o.output
              /\ processing_report_file' = o.report
              /\ results' = o.results
              /\ returned' = o.returned
    /\ pc' = "processed"
    /\ runs' = runs + 1
    /\ UNCHANGED <<input_data, format_info_file, format_report_file>>

SpecProcess == InitProcess /\ [][Process]_vars

\* One call of convert_coco_to_yolo(input_path, output_path, results).
Convert ==
    /\ pc = "start"
    /\ \E tree \in ConvTrees, output \in InitialOutputs :
          LET r == convert_coco_to_yolo(tree, output, ProcessingResults("coco"))
          IN  /\ input_data' = tree
              /\ args' = <<output>>
              /\ output_data' = r.output
              /\ results' = r.results
              /\ returned' = r.success
    /\ pc' = "converted"
    /\ UNCHANGED <<format_info_file, format_report_file, detected_format_file,
                   processing_report_file, runs>>

SpecConvert == Init /\ [][Convert]_vars

\* The two stages in sequence on one input directory: the detector writes
\* its decision, the processor loads it.
\* json.load of the format-info file the detector left: the file is
\* missing when the detector could not write it, else it holds the dict
\* dumped, which always has the detected_format key.
LoadedDecision(file) ==
    IF file.written THEN ObjectDecision(file.content.detected_format)
    ELSE MissingDecision

DetectStage ==
    /\ pc = "start"
    /\ \E scan_raises \in BOOLEAN, format_info \in Paths, format_report \in Paths :
          \E written \in {WrittenFiles(input_data, scan_raises, format_info, format_report)} :
              /\ input_data.exists \/ ~scan_raises
              /\ args' = <<format_info, format_report, scan_raises>>
              /\ format_info_file' = written[1]
              /\ format_report_file' = written[2]
    /\ pc' = "detected"
    /\ returned' = "ok"
    /\ UNCHANGED <<input_data, detected_format_file, output_data,
                   processing_report_file, results, runs>>

ProcessStage ==
    /\ pc = "detected"
    /\ \E processing_report \in Paths :
        \E fault \in IF input_data.exists /\ LoadedDecision(format_info_file) = ObjectDecision("yolo")
                      THEN Faults(input_data, output_data) ELSE {NoFault} :
          \E o \in {process_data(input_data, LoadedDecision(format_info_file), output_data,
                                 processing_report, fault)} :
              /\ args' = <<processing_report, fault>>
              /\ output_data' = o.output
              /\ processing_report_file' = o.report
              /\ results' = o.results
              /\ returned' = o.returned
    /\ detected_format_file' = LoadedDecision(format_info_file)
    /\ pc' = "processed"
    /\ runs' = runs + 1
    /\ UNCHANGED <<input_data, format_info_file, format_report_file>>

SpecPipeline == InitProcess /\ [][DetectStage \/ ProcessStage]_vars

(***************************************************************************)
(* The detector.                                                           *)
(***************************************************************************)
DetectorDecided ==
    /\ pc = "detected"
    /\ input_data.exists
    /\ format_info_file.written
    /\ format_info_file.content.has_scores

\* C1: for every input tree and every pair of output paths (bare file names
\* included) detect_data_format returns and has written both the
\* format-info file and the format-report file.
C1_BothFilesWritten ==
    pc = "detected" =>
        /\ returned = "ok"
        /\ format_info_file.written
        /\ format_report_file.written

\* C3: the decision follows the scores: coco when coco_score >= yolo_score
\* and coco_score >= 2, with confidence min(0.9, 0.3 + 0.15 * coco_score),
\* conversion needed and not skipped; else yolo when yolo_score >= 2, with
\* confidence min(0.9, 0.3 + 0.15 * yolo_score), no conversion needed and
\* conversion skipped; else unknown with confidence 0, conversion needed
\* and not skipped.  Confidence is in hundredths.
C3_DecisionRule ==
    DetectorDecided =>
        LET d == format_info_file.content
            c == d.coco_score
            y == d.yolo_score
        IN  IF c >= y /\ c >= 2
            THEN /\ d.detected_format = "coco"
                 /\ d.confidence = (IF 30 + 15 * c <= 90 THEN 30 + 15 * c ELSE 90)
                 /\ d.conversion_needed
                 /\ ~d.skip_conversion
            ELSE IF y >= 2
            THEN /\ d.detected_format = "yolo"
                 /\ d.confidence = (IF 30 + 15 * y <= 90 THEN 30 + 15 * y ELSE 90)
                 /\ ~d.conversion_needed
                 /\ d.skip_conversion
            ELSE /\ d.detected_format = "unknown"
                 /\ d.confidence = 0
                 /\ d.conversion_needed
                 /\ ~d.skip_conversion

\* A tie of the two scores at 2 or more, decided for coco.
C3_Witness ==
    /\ DetectorDecided
    /\ format_info_file.content.coco_score = format_info_file.content.yolo_score
    /\ format_info_file.content.coco_score >= 2
    /\ format_info_file.content.detected_format = "coco"

\* A line of five numeric fields, each within [0, 1].
C4_FiveUnitFields(parts) ==
    /\ Len(parts) = 5
    /\ \A i \in 1..5 : ~FloatRaises(parts[i])
    /\ \A i \in 1..5 : 0 <= FloatTenths(parts[i]) /\ FloatTenths(parts[i]) <= 10

\* The scan ran to its end over a tree holding classes.txt and at least
\* three images that each have a same-stem .txt file with such a line.
C4_YoloTree ==
    /\ DetectorDecided
    /\ \E i \in DOMAIN input_data.txts : input_data.txts[i].name = "classes.txt"
    /\ Cardinality({ i \in DOMAIN input_data.images :
            /\ input_data.images[i].ann.exists
            /\ input_data.images[i].ann.readable
            /\ \E k \in DOMAIN input_data.images[i].ann.lines :
                   C4_FiveUnitFields(input_data.images[i].ann.lines[k]) }) >= 3

\* C4 as stated: such a tree is decided yolo with skip_conversion, whatever
\* else it holds.
C4_YoloWhateverElse ==
    C4_YoloTree =>
        /\ format_info_file.content.detected_format = "yolo"
        /\ format_info_file.content.skip_conversion

\* C4, amended: such a tree is decided yolo with skip_conversion when the
\* COCO score of its JSON files stays below its YOLO score.
C4_YoloUnlessCocoScoresAsHigh ==
    (C4_YoloTree /\ format_info_file.content.coco_score < format_info_file.content.yolo_score) =>
        /\ format_info_file.content.detected_format = "yolo"
        /\ format_info_file.content.skip_conversion

\* Such a tree, with JSON files that score for COCO, decided yolo.
C4_Witness ==
    /\ C4_YoloTree
    /\ format_info_file.content.coco_score > 0
    /\ format_info_file.content.coco_score < format_info_file.content.yolo_score
    /\ format_info_file.content.detected_format = "yolo"
    /\ format_info_file.content.skip_conversion

C10_HasAllThree(f) == f.doc.parses /\ f.doc.isDict /\ AllKeys \subseteq f.doc.keys

C10_HasSome(f) ==
    /\ f.doc.parses
    /\ f.doc.isDict
    /\ f.doc.keys \cap {"images", "annotations"} # {}
    /\ ~(AllKeys \subseteq f.doc.keys)

\* C10: coco_score is 3 for every JSON file of the tree that holds images,
\* annotations and categories plus 1 for every JSON file that holds images
\* or annotations but not all three, each file counted once wherever it
\* lies.
C10_EachJsonFileScoresOnce ==
    DetectorDecided =>
        format_info_file.content.coco_score =
            3 * Cardinality({ i \in DOMAIN input_data.jsons : C10_HasAllThree(input_data.jsons[i]) })
            + Cardinality({ i \in DOMAIN input_data.jsons : C10_HasSome(input_data.jsons[i]) })

\* The images of the tree, each taken once, whose same-stem .txt file can
\* be read and holds a line of five or more fields with fields two to five
\* numeric and within [0, 1].
C11_AnnotatedImages ==
    { i \in DOMAIN input_data.images :
        /\ input_data.images[i].ann.exists
        /\ input_data.images[i].ann.readable
        /\ \E k \in DOMAIN input_data.images[i].ann.lines :
               LET parts == input_data.images[i].ann.lines[k]
               IN  /\ Len(parts) >= 5
                   /\ \A j \in 2..5 : parts[j] \in {"0", "0.5", "1"} }

C11_NoClassesFile ==
    \A i \in DOMAIN input_data.txts :
        input_data.txts[i].name \notin {"classes.txt", "Classes.TXT", "OBJ.names"}

\* C11: on a tree of at most ten images the count of annotated images is
\* the number of distinct images that have a same-stem .txt file with a
\* valid line, no image counted twice, and the annotation evidence (the
\* whole yolo_score when the tree holds no classes file) is 3 for three or
\* more such images, 1 for one or two, and 0 for none.
C11_EachImageCountsOnce ==
    (DetectorDecided /\ Len(input_data.images) <= 10) =>
        LET n == Cardinality(C11_AnnotatedImages)
        IN  /\ format_info_file.content.file_analysis.yolo_annotation_files = n
            /\ C11_NoClassesFile =>
                   format_info_file.content.yolo_score =
                       (IF n >= 3 THEN 3 ELSE IF n > 0 THEN 1 ELSE 0)

\* C12: the files_analyzed list of every report the detector writes has at
\* most 20 entries.
C12_FilesAnalyzedBounded ==
    (pc = "detected" /\ format_report_file.written) =>
        Len(format_report_file.content.files_analyzed) <= 20

\* C15: in every decision the detector writes, on the fallback, the normal
\* and the error path, skip_conversion is the negation of
\* conversion_needed, skip_conversion holds exactly when detected_format is
\* "yolo", and confidence is above 0 exactly when detected_format is "coco"
\* or "yolo", and then lies in [0.6, 0.9] (in hundredths).
C15_DecisionConsistent ==
    (pc = "detected" /\ format_info_file.written) =>
        LET d == format_info_file.content
        IN  /\ d.skip_conversion = ~d.conversion_needed
            /\ d.skip_conversion <=> d.detected_format = "yolo"
            /\ d.confidence > 0 <=> d.detected_format \in {"coco", "yolo"}
            /\ d.confidence > 0 => (60 <= d.confidence /\ d.confidence <= 90)

\* A yolo decision at the least score that gives one.
C15_Witness ==
    /\ pc = "detected"
    /\ format_info_file.written
    /\ format_info_file.content.detected_format = "yolo"
    /\ format_info_file.content.yolo_score = 2
    /\ format_info_file.content.confidence = 60
    /\ format_info_file.content.skip_conversion
    /\ ~format_info_file.content.conversion_needed

(***************************************************************************)
(* The processor.                                                          *)
(***************************************************************************)
\* C2: for every input tree, decision file and report path process_data
\* returns, and then the output directory exists and the processing report
\* has been written.
C2_AlwaysOutputAndReport ==
    pc = "processed" =>
        /\ returned = "ok"
        /\ output_data.exists
        /\ processing_report_file.written

\* The decision file is missing, unreadable as JSON or a JSON object: the
\* decision has a detected_format, given or defaulted.
C5_HasDecision(file) == ~file.exists \/ ~file.parses \/ file.isDict

C5_Format(file) ==
    IF file.exists /\ file.parses /\ file.has_format THEN file.detected_format ELSE "unknown"

\* C5: on an existing input directory the run is decided by detected_format
\* alone: "coco" converts (the images and labels directories are made),
\* "yolo" copies, and every other value leaves the output directory as it
\* was, or creates it empty, with one warning, no error, processing_type
\* unknown_format and success.
C5_BranchOnFormat ==
    [][ (pc' = "processed" /\ input_data.exists /\ C5_HasDecision(detected_format_file')) =>
          LET fmt == C5_Format(detected_format_file')
          IN  /\ returned' = "ok"
              /\ (fmt = "coco") =>
                    /\ results'.processing_type = "coco_to_yolo_conversion"
                    /\ {<<".", "images">>, <<".", "labels">>} \subseteq DOMAIN output_data'.files
              /\ (fmt = "yolo") =>
                    /\ results'.processing_type = "yolo_direct_copy"
                    /\ results'.success => DOMAIN output_data'.files = TreeEntries(input_data)
              /\ (fmt \notin {"coco", "yolo"}) =>
                    /\ results'.processing_type = "unknown_format"
                    /\ results'.success
                    /\ Len(results'.warnings) = 1
                    /\ results'.errors = <<>>
                    /\ output_data'.exists
                    /\ output_data'.files =
                           (IF output_data.exists THEN output_data.files ELSE EmptyFiles)
      ]_vars

\* Each of the three branches taken on an existing input directory.
C5_Witness ==
    /\ pc = "processed"
    /\ input_data.exists
    /\ input_data.jsons # <<>>
    /\ detected_format_file = ObjectDecision("error")
    /\ returned = "ok"
    /\ results.processing_type = "unknown_format"
    /\ output_data.exists

\* C9: a direct copy that succeeds leaves an output tree made of the
\* entries of the input tree and nothing else, whatever the output
\* directory held before and however often the processor ran.
C9_CopyLeavesInputTree ==
    (/\ pc = "processed"
     /\ input_data.exists
     /\ detected_format_file = ObjectDecision("yolo")
     /\ returned = "ok"
     /\ results.success) =>
        /\ output_data.exists
        /\ DOMAIN output_data.files = TreeEntries(input_data)
        /\ \A p \in DOMAIN output_data.files : output_data.files[p].kind \in {"copy", "dir"}

\* A second run over the output of a first one, copying a tree of files.
C9_Witness ==
    /\ pc = "processed"
    /\ runs = 2
    /\ input_data.exists
    /\ detected_format_file = ObjectDecision("yolo")
    /\ results.success
    /\ results.files_processed >= 3
    /\ DOMAIN output_data.files = TreeEntries(input_data)

\* C13: when the removal of the old output or the copy of the tree fails,
\* at whatever point, the direct copy reports failure, has recorded one
\* error, and leaves an output directory that exists and is empty.
C13_FailedCopyLeavesEmptyOutput ==
    (/\ pc = "processed"
     /\ input_data.exists
     /\ detected_format_file = ObjectDecision("yolo")
     /\ args[2].kind # "none") =>
        /\ results.success = FALSE
        /\ Len(results.errors) = 1
        /\ output_data.exists
        /\ DOMAIN output_data.files = {}

(***************************************************************************)
(* The converter.                                                          *)
(***************************************************************************)
LabelFiles(output) ==
    { p \in DOMAIN output.files : output.files[p].kind = "labels" }

\* C6: the four geometry values of every label line written lie in [0, 1]
\* (in millionths).
C6_GeometryInUnitRange ==
    pc = "converted" =>
        \A p \in LabelFiles(output_data) :
            \A k \in DOMAIN output_data.files[p].lines :
                \A g \in 2..5 :
                    /\ 0 <= output_data.files[p].lines[k][g]
                    /\ output_data.files[p].lines[k][g] <= 1000000

C7_Width(img) == IF img.has_dims THEN img.width ELSE 640
C7_Height(img) == IF img.has_dims THEN img.height ELSE 480

\* value is num / den to six decimals: within half a millionth of it.
C7_SixDecimalsOf(value, num, den) ==
    LET below == (num * 1000000) \div den
        rest == (num * 1000000) - below * den
    IN  \/ value = below /\ 2 * rest <= den
        \/ value = below + 1 /\ 2 * rest >= den

\* C7: every label line written carries, for an annotation of its image
\* with bbox [x, y, w, h], x_center = (x + w/2) / img_width,
\* y_center = (y + h/2) / img_height, width = w / img_width and
\* height = h / img_height to six decimals; the box [10, 20, 30, 40] on a
\* 100 x 200 image gives (0.25, 0.20, 0.30, 0.20).
C7_LabelGeometry ==
    pc = "converted" =>
        /\ \A p \in LabelFiles(output_data) :
             \A k \in DOMAIN output_data.files[p].lines :
               LET line == output_data.files[p].lines[k]
               IN  \E f \in Range(input_data.jsons) :
                     \E img \in Range(f.doc.images), ann \in Range(f.doc.annotations) :
                       /\ f.top
                       /\ img.id = ann.image_id
                       /\ p = <<"labels", LabelName(img.file_name)>>
                       /\ ann.has_bbox
                       /\ Len(ann.bbox) = 4
                       /\ C7_Width(img) > 0
                       /\ C7_Height(img) > 0
                       /\ C7_SixDecimalsOf(line[2], 2 * ann.bbox[1] + ann.bbox[3], 2 * C7_Width(img))
                       /\ C7_SixDecimalsOf(line[3], 2 * ann.bbox[2] + ann.bbox[4], 2 * C7_Height(img))
                       /\ C7_SixDecimalsOf(line[4], ann.bbox[3], C7_Width(img))
                       /\ C7_SixDecimalsOf(line[5], ann.bbox[4], C7_Height(img))
        /\ (input_data.jsons =
                << NamedJson(TRUE, "ann.json",
                       CocoDoc(<<Image(1, "a.jpg", TRUE, 100, 200)>>,
                               <<Ann(1, TRUE, <<10, 20, 30, 40>>, TRUE, 1)>>,
                               <<Cat(1, "cat")>>)) >>)
           => /\ <<"labels", "a.txt">> \in DOMAIN output_data.files
              /\ output_data.files[<<"labels", "a.txt">>].lines
                     = << <<0, 250000, 200000, 300000, 200000>> >>

\* The box [10, 20, 30, 40] on the 100 x 200 image, converted.
C7_Witness ==
    /\ pc = "converted"
    /\ Len(input_data.jsons) = 1
    /\ input_data.jsons[1].doc.images = <<Image(1, "a.jpg", TRUE, 100, 200)>>
    /\ input_data.jsons[1].doc.annotations = <<Ann(1, TRUE, <<10, 20, 30, 40>>, TRUE, 1)>>
    /\ <<"labels", "a.txt">> \in LabelFiles(output_data)
    /\ output_data.files[<<"labels", "a.txt">>].lines
           = << <<0, 250000, 200000, 300000, 200000>> >>

\* C8: after a conversion that reports success classes.txt has been written
\* into the output directory, and it holds the single line "object" when no
\* JSON file of the input gave a category.
C8_ClassesWritten ==
    (pc = "converted" /\ returned = TRUE) =>
        /\ <<".", "classes.txt">> \in DOMAIN output_data.files
        /\ output_data.files[<<".", "classes.txt">>].kind = "classes"
        /\ (\A f \in Range(input_data.jsons) : f.doc.categories = <<>>)
               => output_data.files[<<".", "classes.txt">>].lines = <<"object">>

\* The images of a document by id, a later record replacing an earlier one.
C14_ImageOf(doc, id) ==
    LET known == { i \in DOMAIN doc.images : doc.images[i].id = id }
    IN  doc.images[CHOOSE i \in known : \A j \in known : j <= i]

\* An annotation the conversion turns into a label line: it has a bbox and
\* a category and names an image of its document.
C14_Converted(doc, ann) ==
    /\ ann.has_bbox
    /\ ann.has_category
    /\ \E i \in DOMAIN doc.images : doc.images[i].id = ann.image_id

\* Reading or processing the file fails: it is not JSON, or one of the
\* annotations it converts has a bbox of the wrong length or lies on an
\* image of width or height zero.
C14_Fails(f) ==
    \/ ~f.doc.parses
    \/ /\ f.doc.isDict
       /\ {"images", "annotations"} \subseteq f.doc.keys
       /\ \E k \in DOMAIN f.doc.annotations :
              LET ann == f.doc.annotations[k]
              IN  /\ C14_Converted(f.doc, ann)
                  /\ \/ Len(ann.bbox) # 4
                     \/ C7_Width(C14_ImageOf(f.doc, ann.image_id)) = 0
                     \/ C7_Height(C14_ImageOf(f.doc, ann.image_id)) = 0

\* The JSON files the conversion reads: those directly in the input.
C14_Read == { i \in DOMAIN input_data.jsons : input_data.jsons[i].top }

C14_CategoryIds ==
    UNION { { input_data.jsons[i].doc.categories[k].id :
                k \in DOMAIN input_data.jsons[i].doc.categories } :
            i \in { j \in C14_Read :
                      /\ input_data.jsons[j].doc.isDict
                      /\ {"images", "categories"} \subseteq input_data.jsons[j].doc.keys } }

\* C14: when reading or processing some JSON files fails, each such file
\* adds exactly one entry to errors and the run goes on: every other file
\* is processed (each image it annotates has its label file), every image
\* of the input is copied, classes.txt is written with one line per
\* category id seen ("object" when none), and the conversion returns
\* success.
C14_FileFailureIsLocal ==
    (pc = "converted" /\ \E i \in C14_Read : C14_Fails(input_data.jsons[i])) =>
        /\ Len(results.errors) =
               Cardinality({ i \in C14_Read : C14_Fails(input_data.jsons[i]) })
        /\ \A i \in C14_Read :
               LET doc == input_data.jsons[i].doc
               IN  (/\ ~C14_Fails(input_data.jsons[i])
                    /\ doc.isDict
                    /\ {"images", "annotations"} \subseteq doc.keys) =>
                       \A k \in DOMAIN doc.annotations :
                           C14_Converted(doc, doc.annotations[k]) =>
                               <<"labels", LabelName(C14_ImageOf(doc, doc.annotations[k].image_id).file_name)>>
                                   \in LabelFiles(output_data)
        /\ \A i \in DOMAIN input_data.images :
               /\ <<"images", input_data.images[i].name>> \in DOMAIN output_data.files
               /\ output_data.files[<<"images", input_data.images[i].name>>].kind = "copy"
        /\ <<".", "classes.txt">> \in DOMAIN output_data.files
        /\ output_data.files[<<".", "classes.txt">>].kind = "classes"
        /\ Len(output_data.files[<<".", "classes.txt">>].lines) =
               (IF C14_CategoryIds = {} THEN 1 ELSE Cardinality(C14_CategoryIds))
        /\ returned = TRUE

\* A file that is not JSON, followed by a file whose annotation is
\* converted, in a tree with images.
C14_Witness ==
    /\ pc = "converted"
    /\ Len(input_data.jsons) = 2
    /\ ~input_data.jsons[1].doc.parses
    /\ input_data.jsons[2].doc.annotations = <<Ann(1, TRUE, <<10, 20, 30, 40>>, TRUE, 1)>>
    /\ input_data.jsons[2].doc.images = <<Image(1, "a.jpg", TRUE, 100, 200)>>
    /\ input_data.images # <<>>
    /\ Len(results.errors) = 1
    /\ <<"labels", "a.txt">> \in LabelFiles(output_data)
    /\ <<"images", "b.png">> \in DOMAIN output_data.files
    /\ output_data.files[<<".", "classes.txt">>].lines = <<"cat">>
    /\ returned = TRUE

(***************************************************************************)
(* The two stages together.                                                *)
(***************************************************************************)
\* C16: when the detector has declared "coco" and the processor has then
\* run on the same input directory, the JSON files the conversion reads are
\* the JSON files the detector scored, and the conversion has not ended
\* with "No JSON files found".
C16_StagesReadSameJson ==
    (/\ pc = "processed"
     /\ format_info_file.written
     /\ format_info_file.content.detected_format = "coco") =>
        /\ Range(coco_files(input_data)) = Range(json_files(input_data))
        /\ "No JSON files found" \notin Range(results.warnings)

====
